---------------------------- MODULE Spec2Model ----------------------------
(***************************************************************************)
(* Model of the data-acquisition core of clinical-trials-dashboard:        *)
(*   - analysis/playwright_scraper.py  (text / identifier canonicalizers,  *)
(*     the results-list scan, the detail-view extraction, scrape, main)    *)
(*   - analysis/playwright_runner.py   (run_playwright_subprocess)         *)
(*   - analysis/api_client.py          (get_clinical_trials)               *)
(*   - analysis/geo.py                 (canonicalize_country)              *)
(*                                                                         *)
(* Text is a sequence of characters; a character is a one-element token    *)
(* ("N", "7", SP, ZWSP, ...).  Python's None is the value None below, and  *)
(* an absent integer is NoInt.                                             *)
(***************************************************************************)
EXTENDS Integers, Sequences, FiniteSets, TLC

VARIABLES
    \* ---- canonicalizer harness (pure functions applied to drawn inputs)
    cpc, cx, cy, cz,
    \* ---- scrape() / main() of playwright_scraper.py
    pc, max_results, pairs, seen, records, idx, file, fhbuf, written,
    stdout, retval,
    \* ---- observations of the run (written, never read, by the actions)
    dupSkipped, detailFailure, detailTitles,
    \* ---- run_playwright_subprocess() of playwright_runner.py and its child
    rpc, timeout, clock, child, childCode, childExit, pipe, printed, logs,
    returncode, killSent, waitStart, failure, result,
    \* ---- get_clinical_trials() of api_client.py
    apc, studies, apos, arecords

cvars == <<cpc, cx, cy, cz>>
svars == <<pc, max_results, pairs, seen, records, idx, file, fhbuf, written,
           stdout, retval, dupSkipped, detailFailure, detailTitles>>
rvars == <<rpc, timeout, clock, child, childCode, childExit, pipe, printed,
           logs, returncode, killSent, waitStart, failure, result>>
avars == <<apc, studies, apos, arecords>>
vars  == <<cvars, svars, rvars, avars>>

-----------------------------------------------------------------------------
(* Characters and text                                                     *)

None  == <<"<None>">>      \* Python None, where a text is expected
NoInt == -1                \* Python None, where an int is expected

SP   == " "
TAB  == "<tab>"
NBSP == "<u00A0>"
BOM  == "<uFEFF>"
ZWSP == "<u200B>"

UPPER == <<"A","B","C","D","E","F","G","H","I","J","K","L","M",
           "N","O","P","Q","R","S","T","U","V","W","X","Y","Z">>
LOWER == <<"a","b","c","d","e","f","g","h","i","j","k","l","m",
           "n","o","p","q","r","s","t","u","v","w","x","y","z">>
DIGITS == <<"0","1","2","3","4","5","6","7","8","9">>

DigitSet == {DIGITS[i] : i \in 1..10}
UpperSet == {UPPER[i] : i \in 1..26}
LowerSet == {LOWER[i] : i \in 1..26}
WordSet  == DigitSet \cup UpperSet \cup LowerSet \cup {"_"}

IsDigit(c) == c \in DigitSet
IsUpper(c) == c \in UpperSet
IsLower(c) == c \in LowerSet
\* \w of Python's re: letters, digits, underscore
IsWord(c)  == c \in WordSet
\* \s of Python's re on str, and str.strip(): NBSP is whitespace, the
\* zero-width characters and the BOM are not
SpaceSet == {SP, TAB, NBSP}
IsSpace(c) == c \in SpaceSet
\* String.prototype.trim() of the page script: NBSP and the BOM are white space
JsSpaceSet == {SP, TAB, NBSP, BOM}
IsJsSpace(c) == c \in JsSpaceSet

DigitValue == [c \in DigitSet |-> (CHOOSE i \in 1..10 : DIGITS[i] = c) - 1]
ToLower    == [c \in UpperSet |-> LOWER[CHOOSE i \in 1..26 : UPPER[i] = c]]
ToUpper    == [c \in LowerSet |-> UPPER[CHOOSE i \in 1..26 : LOWER[i] = c]]

DigitVal(c)  == DigitValue[c]
LowerChar(c) == IF IsUpper(c) THEN ToLower[c] ELSE c
UpperChar(c) == IF IsLower(c) THEN ToUpper[c] ELSE c

\* str.lower()
Lower(s) == [i \in 1..Len(s) |-> LowerChar(s[i])]

\* Python truthiness of an Optional[str]: None and "" are falsy
Truthy(s) == s # None /\ s # <<>>

\* needle in hay (Python's `in` on str)
Contains(hay, needle) ==
    \E i \in 1..(Len(hay) - Len(needle) + 1) :
        SubSeq(hay, i, i + Len(needle) - 1) = needle

\* s without its leading and trailing characters of the set ws
StripWith(s, ws) ==
    LET keep == {i \in 1..Len(s) : s[i] \notin ws}
    IN  IF keep = {} THEN <<>>
        ELSE SubSeq(s, CHOOSE i \in keep : \A j \in keep : i <= j,
                       CHOOSE i \in keep : \A j \in keep : i >= j)

\* str.strip()
Strip(s) == StripWith(s, SpaceSet)

\* String.prototype.trim()
JsTrim(s) == StripWith(s, JsSpaceSet)

\* every maximal run of characters of the set ws replaced by one space
CollapseWith(s, ws) ==
    LET F[i \in 0..Len(s)] ==
            IF i = 0 THEN <<>>
            ELSE IF s[i] \in ws
                 THEN IF i > 1 /\ s[i-1] \in ws THEN F[i-1]
                      ELSE Append(F[i-1], SP)
                 ELSE Append(F[i-1], s[i])
    IN  F[Len(s)]

\* re.sub(r"\s+", " ", s)
CollapseWs(s) == CollapseWith(s, SpaceSet)

\* s.replace(NBSP, " ").replace(BOM, "")
ReplaceNbspBom(s) ==
    SelectSeq([i \in 1..Len(s) |-> IF s[i] = NBSP THEN SP ELSE s[i]],
              LAMBDA c : c # BOM)

\* re.sub(r"[u200B-u200F]", "", s)
RemoveZeroWidth(s) == SelectSeq(s, LAMBDA c : c # ZWSP)

CleanTextWsFirst(val) ==
    IF val = None THEN None
    ELSE RemoveZeroWidth(Strip(CollapseWs(ReplaceNbspBom(val))))

\* _clean_text
CleanText(val) ==
    IF val = None THEN None
    ELSE Strip(CollapseWs(RemoveZeroWidth(ReplaceNbspBom(val))))

\* \b at the gap before position i (1..Len(s)+1)
WordBoundary(s, i) ==
    LET before == i > 1 /\ IsWord(s[i-1])
        after  == i <= Len(s) /\ IsWord(s[i])
    IN  before # after

\* first index >= i whose character is outside the set cs, Len(s)+1 if
\* none: the end of a greedy run [cs]* started at i
RunEnd(s, i, cs) ==
    LET stop == {j \in i..Len(s) : s[j] \notin cs}
    IN  IF stop = {} THEN Len(s) + 1
        ELSE CHOOSE j \in stop : \A k \in stop : j <= k

MinNctDigits == 4

\* NctMatchAt without the closing \b: r"\bNCT\s*(\d{4,})"
NctMatchAtNoEndBoundary(s, i) ==
    IF /\ i + 2 <= Len(s)
       /\ WordBoundary(s, i)
       /\ UpperChar(s[i]) = "N" /\ UpperChar(s[i+1]) = "C" /\ UpperChar(s[i+2]) = "T"
    THEN LET k == RunEnd(s, i + 3, SpaceSet)
             e == RunEnd(s, k, DigitSet)
         IN  IF e - k >= MinNctDigits THEN <<k, e - 1>> ELSE <<>>
    ELSE <<>>

\* the span of digits matched by r"\bNCT\s*(\d{4,})\b" (IGNORECASE) anchored
\* at i, as <<first, last>>, or <<>> when there is no match at i.  Both
\* greedy runs are maximal: giving back a white space or a digit leaves a
\* white space where a digit is required, or a digit on both sides of \b.
NctMatchAt(s, i) ==
    IF /\ i + 2 <= Len(s)
       /\ WordBoundary(s, i)
       /\ UpperChar(s[i]) = "N" /\ UpperChar(s[i+1]) = "C" /\ UpperChar(s[i+2]) = "T"
    THEN LET k == RunEnd(s, i + 3, SpaceSet)
             e == RunEnd(s, k, DigitSet)
         IN  IF e - k >= MinNctDigits /\ WordBoundary(s, e)
             THEN <<k, e - 1>> ELSE <<>>
    ELSE <<>>

\* _canonical_nct
CanonicalNct(val) ==
    LET s == CleanText(val)
    IN  IF ~Truthy(s) THEN None
        ELSE LET hits == {i \in 1..Len(s) : NctMatchAt(s, i) # <<>>}
             IN  IF hits = {} THEN s
                 ELSE LET i == CHOOSE h \in hits : \A g \in hits : h <= g
                          m == NctMatchAt(s, i)
                      IN  <<"N", "C", "T">> \o SubSeq(s, m[1], m[2])

\* int() of a run of decimal digits
IntOf(ds) ==
    LET F[i \in 0..Len(ds)] ==
            IF i = 0 THEN 0 ELSE 10 * F[i-1] + DigitVal(ds[i])
    IN  F[Len(ds)]

\* r"\b(19|20)\d{2}\b" anchored at i
PlausibleYearAt(t, i) ==
    /\ i + 3 <= Len(t)
    /\ WordBoundary(t, i)
    /\ SubSeq(t, i, i + 1) \in {<<"1", "9">>, <<"2", "0">>}
    /\ IsDigit(t[i+2]) /\ IsDigit(t[i+3])
    /\ WordBoundary(t, i + 4)

\* r"(\d{4})" anchored at i
FourDigitsAt(t, i) ==
    /\ i + 3 <= Len(t)
    /\ \A j \in i..(i + 3) : IsDigit(t[j])

FirstOf(S) == CHOOSE i \in S : \A j \in S : i <= j

\* playwright_scraper._extract_year
ExtractYear(text) ==
    IF ~Truthy(text) THEN NoInt
    ELSE LET p == {i \in 1..Len(text) : PlausibleYearAt(text, i)}
             q == {i \in 1..Len(text) : FourDigitsAt(text, i)}
         IN  IF p # {} THEN IntOf(SubSeq(text, FirstOf(p), FirstOf(p) + 3))
             ELSE IF q # {} THEN IntOf(SubSeq(text, FirstOf(q), FirstOf(q) + 3))
             ELSE NoInt

-----------------------------------------------------------------------------
(* The results list: the page script and _pairs_from_search_page           *)

\* the text after the last "," (locText.split(',') then parts[parts.length-1])
LastPart(s) ==
    LET commas == {i \in 1..Len(s) : s[i] = ","}
    IN  IF commas = {} THEN s
        ELSE SubSeq(s, (CHOOSE i \in commas : \A j \in commas : i >= j) + 1, Len(s))

\* The script evaluated on one .nct-id element.  An element is what the
\* script reads of it: its innerText, the link and the location span of the
\* nearest enclosing container that has either.
PageScript(el) ==
    IF el.hasLink \/ el.hasLoc
    THEN [nct        |-> JsTrim(el.nct),
          url        |-> IF el.hasLink THEN el.href ELSE None,
          country    |-> IF el.hasLoc THEN JsTrim(LastPart(JsTrim(el.locText)))
                         ELSE None,
          briefTitle |-> IF el.hasLink THEN el.linkText ELSE <<>>]
    ELSE [nct |-> JsTrim(el.nct), url |-> None, country |-> None,
          briefTitle |-> None]

\* _pairs_from_search_page: [] when the wait or the evaluation raises
PairsFromSearchPage(page) ==
    IF ~page.ready \/ ~page.evalOk THEN <<>>
    ELSE [i \in 1..Len(page.els) |->
            LET r == PageScript(page.els[i])
            IN  [nctId      |-> CanonicalNct(r.nct),
                 url        |-> r.url,
                 briefTitle |-> CleanText(r.briefTitle),
                 country    |-> CleanText(r.country)]]

-----------------------------------------------------------------------------
(* The detail view: _extract_title_and_start_year                          *)

Err == <<"<raises>">>       \* a Playwright call that raises (no element, timeout)

CTGOV    == <<"C","l","i","n","i","c","a","l","T","r","i","a","l","s",".","g","o","v">>
FULLTEXT == <<"F","u","l","l",SP,"T","e","x","t",SP,"V","i","e","w">>
SITEWORD == <<"c","l","i","n","i","c","a","l","t","r","i","a","l","s">>
UNKNOWN  == <<"u","n","k","n","o","w","n",SP,"s","t","a","t","u","s">>

\* r"\s+-\s+<suffix>\s*$" (IGNORECASE) matches from i to the end
SuffixMatchAt(s, i, suffix) ==
    /\ i <= Len(s) /\ IsSpace(s[i])
    /\ LET k  == RunEnd(s, i, SpaceSet)
           k3 == RunEnd(s, k + 1, SpaceSet)
       IN  /\ k <= Len(s) /\ s[k] = "-"
           /\ k3 > k + 1
           /\ k3 + Len(suffix) - 1 <= Len(s)
           /\ Lower(SubSeq(s, k3, k3 + Len(suffix) - 1)) = Lower(suffix)
           /\ RunEnd(s, k3 + Len(suffix), SpaceSet) = Len(s) + 1

\* re.sub(r"\s+-\s+<suffix>\s*$", "", s, flags=re.IGNORECASE).strip()
StripSuffix(s, suffix) ==
    LET hits == {i \in 1..Len(s) : SuffixMatchAt(s, i, suffix)}
    IN  IF hits = {} THEN Strip(s) ELSE Strip(SubSeq(s, 1, FirstOf(hits) - 1))

\* Python's `a or b`
Or(a, b) == IF Truthy(a) THEN a ELSE b

\* _norm_js: the script collapses and trims with the browser's white space,
\* then _clean_text; None when the evaluation raises
NormJs(v) ==
    IF v = Err THEN None ELSE CleanText(JsTrim(CollapseWith(v, JsSpaceSet)))

\* _meta_content
MetaContent(v) ==
    IF v = Err THEN None ELSE Or(CleanText(v), None)

\* the title of _extract_title_and_start_year, tier by tier
TitleAfterMeta(view) ==
    LET t1 == NormJs(view.h2)
        t2 == IF ~Truthy(t1) THEN Or(MetaContent(view.og), MetaContent(view.tw))
              ELSE t1
    IN  IF Truthy(t2) THEN StripSuffix(t2, CTGOV) ELSE t2

TitleAfterDocument(view) ==
    LET t == TitleAfterMeta(view)
    IN  IF Truthy(t) THEN t
        ELSE IF view.doc = Err THEN None
        ELSE LET p == CleanText(view.doc)
                 q == IF Truthy(p) THEN StripSuffix(StripSuffix(p, CTGOV), FULLTEXT)
                      ELSE p
             IN  Or(q, None)

DetailTitle(view) ==
    LET t == TitleAfterDocument(view)
    IN  IF Truthy(t) THEN t
        ELSE LET h == Or(NormJs(view.mainh1), NormJs(view.h1))
             IN  IF Truthy(h) /\ ~Contains(Lower(h), SITEWORD) THEN h ELSE t

\* the start year of _extract_title_and_start_year: view.ov is the overview
\* item's inner text, None when query_selector returns no element, Err when
\* the wait or the read raises
DetailYear(view) ==
    IF view.ov = Err \/ view.ov = None THEN NoInt
    ELSE ExtractYear(CleanText(view.ov))

\* _extract_title_and_start_year
ExtractTitleAndStartYear(view) == <<DetailTitle(view), DetailYear(view)>>

-----------------------------------------------------------------------------
(* What the site can serve: result-list elements and detail views          *)

MaxRequested == 2          \* the largest max_results drawn
MaxPerPage   == 2          \* the most .nct-id elements on one results page

T_NCT1  == <<"N","C","T","0","0","0","1">>
T_nct1  == <<"n","c","t",SP,"0","0","0","1",ZWSP>>
T_NCT2  == <<"N","C","T","0","0","0","2">>
T_NCT3  == <<BOM,"N","C","T","0","0","0","3">>
T_URL   == <<"/","s">>
T_A     == <<"A">>
T_LISTU == <<"B",SP,"(","U","n","k","n","o","w","n",SP,"S","T","A","T","U","S",")">>
T_FR    == <<"P",",",SP,"F","R">>
T_NOCTY == <<"P",",",SP>>

Elements ==
    { [nct |-> T_NCT1, hasLink |-> TRUE,  linkText |-> T_A,     href |-> T_URL,
       hasLoc |-> TRUE,  locText |-> T_FR],
      [nct |-> T_nct1, hasLink |-> TRUE,  linkText |-> <<SP>>,  href |-> T_URL,
       hasLoc |-> FALSE, locText |-> <<>>],
      [nct |-> T_NCT2, hasLink |-> TRUE,  linkText |-> T_LISTU, href |-> T_URL,
       hasLoc |-> TRUE,  locText |-> T_NOCTY],
      [nct |-> T_NCT3, hasLink |-> TRUE,  linkText |-> <<>>,    href |-> T_URL,
       hasLoc |-> FALSE, locText |-> <<>>],
      [nct |-> T_NCT3, hasLink |-> FALSE, linkText |-> <<>>,    href |-> <<>>,
       hasLoc |-> TRUE,  locText |-> T_FR],
      [nct |-> <<ZWSP>>, hasLink |-> FALSE, linkText |-> <<>>,  href |-> <<>>,
       hasLoc |-> FALSE, locText |-> <<>>] }

Pages ==
    { [ready |-> FALSE, evalOk |-> TRUE,  els |-> <<>>],
      [ready |-> TRUE,  evalOk |-> FALSE, els |-> <<>>] }
    \cup { [ready |-> TRUE, evalOk |-> TRUE, els |-> e] :
             e \in UNION {[1..n -> Elements] : n \in 0..MaxPerPage} }

T_D     == <<"D",NBSP>>
T_OGE   == <<"E",SP,"-",SP>> \o CTGOV
T_DETU  == <<"F",SP,"u","n","k","n","o","w","n",SP,"s","t","a","t","u","s">>
T_DOCG  == <<"G",SP,"-",SP>> \o FULLTEXT \o <<SP,"-",SP>> \o Lower(CTGOV)
T_SITE  == <<"C","l","i","n","i","c","a","l","T","r","i","a","l","s">>
T_H     == <<"H">>
T_OV14  == <<"M","a","r",SP,"2","0","1","4">>
T_OV77  == <<"I","D",SP,"7","7","1","2","3">>

DetailViews ==
    { \* the primary title element and a dated overview item
      [h2 |-> T_D, og |-> Err, tw |-> Err, doc |-> Err, mainh1 |-> Err,
       h1 |-> Err, ov |-> T_OV14],
      \* no primary element: the meta description, with the site's suffix
      [h2 |-> Err, og |-> T_OGE, tw |-> Err, doc |-> Err, mainh1 |-> Err,
       h1 |-> Err, ov |-> T_OV77],
      \* a title carrying the status marker
      [h2 |-> T_DETU, og |-> Err, tw |-> Err, doc |-> Err, mainh1 |-> Err,
       h1 |-> Err, ov |-> None],
      \* the document title, with both suffixes
      [h2 |-> <<>>, og |-> <<>>, tw |-> Err, doc |-> T_DOCG, mainh1 |-> Err,
       h1 |-> Err, ov |-> Err],
      \* a generic heading
      [h2 |-> Err, og |-> Err, tw |-> Err, doc |-> <<>>, mainh1 |-> Err,
       h1 |-> T_H, ov |-> Err],
      \* nothing but the site's own header: every selector wait times out
      [h2 |-> Err, og |-> Err, tw |-> Err, doc |-> Err, mainh1 |-> Err,
       h1 |-> T_SITE, ov |-> Err] }

-----------------------------------------------------------------------------
(* scrape                                                                  *)

Min(a, b) == IF a <= b THEN a ELSE b
Max(a, b) == IF a >= b THEN a ELSE b

\* seq[:n] of Python, for any integer n
SliceTo(seq, n) ==
    IF n >= 0 THEN SubSeq(seq, 1, Min(n, Len(seq)))
    ELSE SubSeq(seq, 1, Max(Len(seq) + n, 0))

\* the same loop without the seen-set test
ScanItemsNoSeen(items, p0, s0, maxr) ==
    LET F[i \in 0..Len(items)] ==
            IF i = 0 THEN <<p0, s0, FALSE>>
            ELSE LET p  == F[i-1][1]
                     sn == F[i-1][2]
                     it == items[i]
                 IN  IF Len(p) >= maxr /\ Len(p) > Len(p0) THEN F[i-1]
                     ELSE IF ~Truthy(it.nctId) THEN F[i-1]
                     ELSE <<Append(p, it), sn \cup {it.nctId}, F[i-1][3]>>
    IN  F[Len(items)]

\* the for loop over one scanned page (lines 269-276): <<pairs, seen, d>>
\* after it, d telling whether an identifier already seen was skipped
ScanItems(items, p0, s0, maxr) ==
    LET F[i \in 0..Len(items)] ==
            IF i = 0 THEN <<p0, s0, FALSE>>
            ELSE LET p  == F[i-1][1]
                     sn == F[i-1][2]
                     it == items[i]
                 IN  IF Len(p) >= maxr /\ Len(p) > Len(p0) THEN F[i-1]  \* after break
                     ELSE IF ~Truthy(it.nctId) THEN F[i-1]
                     ELSE IF it.nctId \in sn THEN <<p, sn, TRUE>>
                     ELSE <<Append(p, it), sn \cup {it.nctId}, F[i-1][3]>>
    IN  F[Len(items)]

\* json.dumps of one record: one line of the artifact
JsonText(v) == IF v = None THEN [t |-> "null"] ELSE [t |-> "string", v |-> v]
JsonInt(n)  == IF n = NoInt THEN [t |-> "null"] ELSE [t |-> "number", v |-> n]
JsonDumps(rec) ==
    [nctId      |-> JsonText(rec.nctId),
     briefTitle |-> JsonText(rec.briefTitle),
     startYear  |-> JsonInt(rec.startYear),
     country    |-> JsonText(rec.country)]

NoFile == [exists |-> FALSE, lines |-> <<>>]

ScrapeIdle ==
    /\ pc = "idle" /\ max_results = 0 /\ pairs = <<>> /\ seen = {}
    /\ records = <<>> /\ idx = 1 /\ file = NoFile /\ fhbuf = <<>>
    /\ written = 0 /\ stdout = <<>> /\ retval = NoInt
    /\ dupSkipped = FALSE /\ detailFailure = 0 /\ detailTitles = <<>>

ScrapeInit ==
    /\ pc = "launch" /\ max_results \in -1..MaxRequested
    /\ pairs = <<>> /\ seen = {} /\ records = <<>> /\ idx = 1
    /\ file = NoFile /\ fhbuf = <<>> /\ written = 0
    /\ stdout = <<>> /\ retval = NoInt
    /\ dupSkipped = FALSE /\ detailFailure = 0 /\ detailTitles = <<>>

\* lines 257-266: start Playwright, launch the browser, open the search page
Launch ==
    /\ pc = "launch"
    /\ pc' = "scan"
    /\ UNCHANGED <<max_results, pairs, seen, records, idx, file, fhbuf, written,
                   stdout, retval, dupSkipped, detailFailure, detailTitles, cvars, rvars, avars>>

\* the same, when the launch or the navigation raises
LaunchFails ==
    /\ pc = "launch"
    /\ pc' = "raised"
    /\ UNCHANGED <<max_results, pairs, seen, records, idx, file, fhbuf, written,
                   stdout, retval, dupSkipped, detailFailure, detailTitles, cvars, rvars, avars>>

\* line 268, condition false: leave the pagination loop
LoopExit ==
    /\ pc = "scan" /\ ~(Len(pairs) < max_results)
    /\ pc' = "details"
    /\ UNCHANGED <<max_results, pairs, seen, records, idx, file, fhbuf, written,
                   stdout, retval, dupSkipped, detailFailure, detailTitles, cvars, rvars, avars>>

\* lines 268-279: one scan of the rendered results page
ScanPage(page) ==
    /\ pc = "scan" /\ Len(pairs) < max_results
    /\ LET r == ScanItems(PairsFromSearchPage(page), pairs, seen, max_results)
       IN  /\ pairs' = r[1]
           /\ seen' = r[2]
           /\ dupSkipped' = (dupSkipped \/ r[3])
           /\ pc' = IF Len(r[1]) >= max_results THEN "details" ELSE "next"
    /\ UNCHANGED <<max_results, records, idx, file, fhbuf, written, stdout,
                   retval, detailFailure, detailTitles, cvars, rvars, avars>>

\* lines 281-283: no next-page control
NextAbsent ==
    /\ pc = "next"
    /\ pc' = "details"
    /\ UNCHANGED <<max_results, pairs, seen, records, idx, file, fhbuf, written,
                   stdout, retval, dupSkipped, detailFailure, detailTitles, cvars, rvars, avars>>

\* lines 284-287: the control reports aria-disabled="true"
NextDisabled ==
    /\ pc = "next"
    /\ pc' = "details"
    /\ UNCHANGED <<max_results, pairs, seen, records, idx, file, fhbuf, written,
                   stdout, retval, dupSkipped, detailFailure, detailTitles, cvars, rvars, avars>>

\* lines 290-293: the click raises
ClickFails ==
    /\ pc = "next"
    /\ pc' = "details"
    /\ UNCHANGED <<max_results, pairs, seen, records, idx, file, fhbuf, written,
                   stdout, retval, dupSkipped, detailFailure, detailTitles, cvars, rvars, avars>>

\* lines 284-291: the control is enabled (or its attribute cannot be read)
\* and the click succeeds
ClickNext ==
    /\ pc = "next"
    /\ pc' = "scan"
    /\ UNCHANGED <<max_results, pairs, seen, records, idx, file, fhbuf, written,
                   stdout, retval, dupSkipped, detailFailure, detailTitles, cvars, rvars, avars>>

Candidates == SliceTo(pairs, max_results)

\* lines 296-299: a candidate without identifier or detail link is skipped
DetailSkip ==
    /\ pc = "details" /\ idx <= Len(Candidates)
    /\ ~Truthy(Candidates[idx].nctId) \/ ~Truthy(Candidates[idx].url)
    /\ idx' = idx + 1
    /\ detailTitles' = Append(detailTitles, None)
    /\ UNCHANGED <<pc, max_results, pairs, seen, records, file, fhbuf, written,
                   stdout, retval, dupSkipped, detailFailure, cvars, rvars, avars>>

\* lines 304-313: browser.new_page() or detail.goto() raises; the try has a
\* finally and no except, so the exception leaves scrape
DetailOpenFails ==
    /\ pc = "details" /\ idx <= Len(Candidates)
    /\ Truthy(Candidates[idx].nctId) /\ Truthy(Candidates[idx].url)
    /\ pc' = "raised"
    /\ detailFailure' = idx
    /\ UNCHANGED <<max_results, pairs, seen, records, idx, file, fhbuf, written,
                   stdout, retval, dupSkipped, detailTitles, cvars, rvars, avars>>

Warn(it) == <<"WARN_TITLE_NONE", it.nctId>>

\* lines 315-329, given what the detail view produced
EmitRecord(it, brief_title, start_year) ==
    IF Truthy(brief_title) /\ Contains(Lower(brief_title), UNKNOWN)
    THEN /\ records' = records
         /\ stdout' = stdout
    ELSE LET final_title == Or(brief_title, it.briefTitle)
         IN  /\ records' = Append(records,
                                  [nctId      |-> it.nctId,
                                   briefTitle |-> final_title,
                                   startYear  |-> start_year,
                                   country    |-> it.country])
             /\ stdout' = IF Truthy(final_title) THEN stdout
                          ELSE Append(stdout, Warn(it))

\* lines 295-329: one candidate whose detail view opens
DetailVisit(view) ==
    /\ pc = "details" /\ idx <= Len(Candidates)
    /\ Truthy(Candidates[idx].nctId) /\ Truthy(Candidates[idx].url)
    /\ LET r == ExtractTitleAndStartYear(view)
       IN  /\ EmitRecord(Candidates[idx], r[1], r[2])
           /\ detailTitles' = Append(detailTitles, r[1])
    /\ idx' = idx + 1
    /\ UNCHANGED <<pc, max_results, pairs, seen, file, fhbuf, written, retval,
                   dupSkipped, detailFailure, cvars, rvars, avars>>

\* line 331
BrowserClose ==
    /\ pc = "details" /\ idx > Len(Candidates)
    /\ pc' = "mkdir"
    /\ UNCHANGED <<max_results, pairs, seen, records, idx, file, fhbuf, written,
                   stdout, retval, dupSkipped, detailFailure, detailTitles, cvars, rvars, avars>>

Output == SliceTo(records, max_results)

\* lines 333-334: create the directory, open the artifact for writing
\* (mode "w" creates or truncates it at once)
OpenArtifact ==
    /\ pc = "mkdir"
    /\ pc' = "write"
    /\ file' = [exists |-> TRUE, lines |-> <<>>]
    /\ fhbuf' = <<>>
    /\ written' = 0
    /\ UNCHANGED <<max_results, pairs, seen, records, idx, stdout, retval, dupSkipped, detailFailure, detailTitles, cvars, rvars, avars>>

\* the same, when mkdir or open raises
OpenFails ==
    /\ pc = "mkdir"
    /\ pc' = "raised"
    /\ UNCHANGED <<max_results, pairs, seen, records, idx, file, fhbuf, written,
                   stdout, retval, dupSkipped, detailFailure, detailTitles, cvars, rvars, avars>>

\* the same write issued twice for one record
WriteRecordTwice ==
    /\ pc = "write" /\ written < Len(Output)
    /\ fhbuf' = fhbuf \o <<JsonDumps(Output[written + 1]),
                            JsonDumps(Output[written + 1])>>
    /\ written' = written + 1
    /\ UNCHANGED <<pc, max_results, pairs, seen, records, idx, file, stdout,
                   retval, dupSkipped, detailFailure, detailTitles, cvars, rvars, avars>>

\* lines 335-336: one fh.write into the file object's buffer
WriteRecord ==
    /\ pc = "write" /\ written < Len(Output)
    /\ fhbuf' = Append(fhbuf, JsonDumps(Output[written + 1]))
    /\ written' = written + 1
    /\ UNCHANGED <<pc, max_results, pairs, seen, records, idx, file, stdout,
                   retval, dupSkipped, detailFailure, detailTitles, cvars, rvars, avars>>

\* the buffer reaches the file before the close, when it fills
FlushBuffer ==
    /\ pc = "write" /\ fhbuf # <<>>
    /\ file' = [file EXCEPT !.lines = @ \o fhbuf]
    /\ fhbuf' = <<>>
    /\ UNCHANGED <<pc, max_results, pairs, seen, records, idx, written, stdout,
                   retval, dupSkipped, detailFailure, detailTitles, cvars, rvars, avars>>

\* lines 335-336: fh.write (or the flush it triggers) raises OSError; leaving
\* the with block closes the file, and the close writes what it still can
\* of the buffer
WriteFails ==
    /\ pc = "write" /\ written < Len(Output)
    /\ \E k \in 0..Len(fhbuf) :
          file' = [file EXCEPT !.lines = @ \o SubSeq(fhbuf, 1, k)]
    /\ fhbuf' = <<>>
    /\ pc' = "raised"
    /\ UNCHANGED <<max_results, pairs, seen, records, idx, written, stdout,
                   retval, dupSkipped, detailFailure, detailTitles, cvars, rvars, avars>>

\* CloseAndReturn that returns without the buffer reaching the file
CloseAndReturnNoFlush ==
    /\ pc = "write" /\ written = Len(Output)
    /\ fhbuf' = <<>>
    /\ retval' = Len(Output)
    /\ pc' = "returned"
    /\ UNCHANGED <<max_results, pairs, seen, records, idx, file, written, stdout,
                   dupSkipped, detailFailure, detailTitles, cvars, rvars, avars>>

\* lines 334-338: leaving the with block flushes and closes; scrape returns
CloseAndReturn ==
    /\ pc = "write" /\ written = Len(Output)
    /\ file' = [file EXCEPT !.lines = @ \o fhbuf]
    /\ fhbuf' = <<>>
    /\ retval' = Len(Output)
    /\ pc' = "returned"
    /\ UNCHANGED <<max_results, pairs, seen, records, idx, written, stdout, dupSkipped, detailFailure, detailTitles, cvars, rvars, avars>>

\* main, lines 351-359
MainSuccess ==
    /\ pc = "returned"
    /\ stdout' = Append(stdout, <<"SCRAPED_ITEMS", retval>>)
    /\ pc' = "exit0"
    /\ UNCHANGED <<max_results, pairs, seen, records, idx, file, fhbuf, written,
                   retval, dupSkipped, detailFailure, detailTitles, cvars, rvars, avars>>

\* main, lines 360-363: the exception is reported and re-raised
MainFatal ==
    /\ pc = "raised"
    /\ stdout' = Append(stdout, <<"FATAL">>)
    /\ pc' = "exit1"
    /\ UNCHANGED <<max_results, pairs, seen, records, idx, file, fhbuf, written,
                   retval, dupSkipped, detailFailure, detailTitles, cvars, rvars, avars>>

\* the orchestrator's proc.kill() (playwright_runner.py line 23 or 29) lands:
\* the process ends where it stands, its unflushed buffer is lost
Killed ==
    /\ pc \notin {"idle", "exit0", "exit1", "killed"}
    /\ pc' = "killed"
    /\ fhbuf' = <<>>
    /\ UNCHANGED <<max_results, pairs, seen, records, idx, file, written, stdout,
                   retval, dupSkipped, detailFailure, detailTitles, cvars, rvars, avars>>

ScrapeNext ==
    \/ Launch
    \/ LaunchFails
    \/ LoopExit
    \/ \E page \in Pages : ScanPage(page)
    \/ NextAbsent
    \/ NextDisabled
    \/ ClickFails
    \/ ClickNext
    \/ DetailSkip
    \/ DetailOpenFails
    \/ \E view \in DetailViews : DetailVisit(view)
    \/ BrowserClose
    \/ OpenArtifact
    \/ OpenFails
    \/ WriteRecord
    \/ FlushBuffer
    \/ WriteFails
    \/ CloseAndReturn
    \/ MainSuccess
    \/ MainFatal
    \/ Killed

-----------------------------------------------------------------------------
(* The canonicalizer applied to drawn texts                                *)

MaxChunks == 3

Chunks ==
    { <<"N","C","T">>, <<"n","c","t">>, <<"0","1","2","3">>, <<"4">>,
      <<SP>>, <<TAB>>, <<NBSP>>, <<ZWSP>>, <<BOM>>, <<"x">> }

Flatten(cs) ==
    LET F[i \in 0..Len(cs)] == IF i = 0 THEN <<>> ELSE F[i-1] \o cs[i]
    IN  F[Len(cs)]

Texts ==
    {None} \cup { Flatten(cs) : cs \in UNION {[1..n -> Chunks] : n \in 0..MaxChunks} }

CanonIdle == cpc = "idle" /\ cx = None /\ cy = None /\ cz = None

CanonInit == cpc = "input" /\ cx \in Texts /\ cy = None /\ cz = None

Canonicalize ==
    /\ cpc = "input"
    /\ cy' = CanonicalNct(cx)
    /\ cpc' = "once"
    /\ UNCHANGED <<cx, cz, svars, rvars, avars>>

CanonicalizeAgain ==
    /\ cpc = "once"
    /\ cz' = CanonicalNct(cy)
    /\ cpc' = "twice"
    /\ UNCHANGED <<cx, cy, svars, rvars, avars>>

CanonNext == Canonicalize \/ CanonicalizeAgain

-----------------------------------------------------------------------------
(* geo.py: canonicalize_country, with the country tables it consults       *)

\* _MANUAL_COUNTRY_MAP, as <<key, value>> pairs in the order of lines 6-16
MANUAL_COUNTRY_MAP ==
    LET UnitedStates  ==
            <<"U","n","i","t","e","d",SP,"S","t","a","t","e","s">>
        UnitedKingdom ==
            <<"U","n","i","t","e","d",SP,"K","i","n","g","d","o","m">>
        SouthKorea    == <<"S","o","u","t","h",SP,"K","o","r","e","a">>
        China         == <<"C","h","i","n","a">>
    IN  << <<<<"U","S","A">>, UnitedStates>>,
           <<<<"U",".","S",".">>, UnitedStates>>,
           <<<<"U",".","S",".","A",".">>, UnitedStates>>,
           <<<<"U","S">>, UnitedStates>>,
           <<<<"U","K">>, UnitedKingdom>>,
           <<<<"U",".","K",".">>, UnitedKingdom>>,
           <<<<"E","n","g","l","a","n","d">>, UnitedKingdom>>,
           <<<<"K","o","r","e","a",",",SP,"R","e","p","u","b","l","i","c",SP,"o","f">>,
             SouthKorea>>,
           <<<<"P","e","o","p","l","e","'","s",SP,"R","e","p","u","b","l","i","c",SP,"o",
               "f",SP,"C","h","i","n","a">>,
             China>>,
           <<<<"P","R","C">>, China>>,
           <<<<"G","r","e","a","t",SP,"B","r","i","t","a","i","n">>,
             UnitedKingdom>> >>

\* pycountry.countries: the ISO 3166-1 records that the alias table and the
\* drawn inputs touch, in the order of their alpha_2 codes; a field the
\* record lacks is None
Countries ==
    << [alpha_2 |-> <<"C","N">>, alpha_3 |-> <<"C","H","N">>, numeric |-> <<"1","5","6">>,
        name |-> <<"C","h","i","n","a">>,
        official_name |->
            <<"P","e","o","p","l","e","'","s",SP,"R","e","p","u","b","l","i","c",SP,"o",
             "f",SP,"C","h","i","n","a">>,
        common_name |-> None],
       [alpha_2 |-> <<"G","B">>, alpha_3 |-> <<"G","B","R">>, numeric |-> <<"8","2","6">>,
        name |-> <<"U","n","i","t","e","d",SP,"K","i","n","g","d","o","m">>,
        official_name |->
            <<"U","n","i","t","e","d",SP,"K","i","n","g","d","o","m",SP,"o","f",SP,"G",
             "r","e","a","t",SP,"B","r","i","t","a","i","n",SP,"a","n","d",SP,
             "N","o","r","t","h","e","r","n",SP,"I","r","e","l","a","n","d">>,
        common_name |-> None],
       [alpha_2 |-> <<"K","R">>, alpha_3 |-> <<"K","O","R">>, numeric |-> <<"4","1","0">>,
        name |-> <<"K","o","r","e","a",",",SP,"R","e","p","u","b","l","i","c",SP,"o","f">>,
        official_name |->
            None,
        common_name |-> <<"S","o","u","t","h",SP,"K","o","r","e","a">>],
       [alpha_2 |-> <<"U","A">>, alpha_3 |-> <<"U","K","R">>, numeric |-> <<"8","0","4">>,
        name |-> <<"U","k","r","a","i","n","e">>,
        official_name |->
            None,
        common_name |-> None],
       [alpha_2 |-> <<"U","S">>, alpha_3 |-> <<"U","S","A">>, numeric |-> <<"8","4","0">>,
        name |-> <<"U","n","i","t","e","d",SP,"S","t","a","t","e","s">>,
        official_name |->
            <<"U","n","i","t","e","d",SP,"S","t","a","t","e","s",SP,"o","f",SP,"A","m",
             "e","r","i","c","a">>,
        common_name |-> None],
       [alpha_2 |-> <<"V","I">>, alpha_3 |-> <<"V","I","R">>, numeric |-> <<"8","5","0">>,
        name |-> <<"V","i","r","g","i","n",SP,"I","s","l","a","n","d","s",",",SP,"U",".","S",
                 ".">>,
        official_name |->
            <<"V","i","r","g","i","n",SP,"I","s","l","a","n","d","s",SP,"o","f",SP,"t",
             "h","e",SP,"U","n","i","t","e","d",SP,"S","t","a","t","e","s">>,
        common_name |-> None] >>

\* pycountry.subdivisions: the ISO 3166-2 record that the alias table
\* touches (GB-ENG), with the position in Countries of its country
Subdivisions ==
    << [name |-> <<"E","n","g","l","a","n","d">>, country |-> 2] >>

\* str.title(): a cased character is upper-cased after an uncased one (or at
\* the start) and lower-cased after a cased one
Title(s) ==
    [i \in 1..Len(s) |->
        IF i > 1 /\ (IsUpper(s[i-1]) \/ IsLower(s[i-1]))
        THEN LowerChar(s[i]) ELSE UpperChar(s[i])]

\* str.find(): the 0-based index of the first occurrence, -1 if none
Find(hay, needle) ==
    LET at == {i \in 1..(Len(hay) - Len(needle) + 1) :
                 SubSeq(hay, i, i + Len(needle) - 1) = needle}
    IN  IF at = {} THEN -1 ELSE (CHOOSE i \in at : \A j \in at : i <= j) - 1

\* pycountry.countries.lookup(value): the position in Countries of the
\* record one of whose indexed fields equals value in any letter case,
\* 0 for LookupError
Lookup(value) ==
    LET Indexed(c) ==
            { Lower(v) : v \in {c.alpha_2, c.alpha_3, c.numeric, c.name,
                                 c.official_name, c.common_name} \ {None} }
        hits == {i \in 1..Len(Countries) : Lower(value) \in Indexed(Countries[i])}
    IN  IF hits = {} THEN 0 ELSE CHOOSE i \in hits : \A j \in hits : i <= j

\* the points pycountry's search_fuzzy(query) gives the record at position
\* i: 50 for an exact lookup; 49 for each subdivision of its country named
\* exactly as the query; max(5, 30 - 2 * find) for the query found in its
\* name, else in its official name; max(1, 5 - find) for each subdivision
\* whose name contains the query
FuzzyPoints(i, query) ==
    LET c == Countries[i]
        fname == Find(Lower(c.name), query)
        fofficial == IF c.official_name = None THEN -1
                     ELSE Find(Lower(c.official_name), query)
        Sub[k \in 0..Len(Subdivisions)] ==
            IF k = 0 THEN 0
            ELSE LET sd == Subdivisions[k]
                     f  == Find(Lower(sd.name), query)
                 IN  Sub[k-1]
                     + (IF sd.country = i /\ Lower(sd.name) = query THEN 49 ELSE 0)
                     + (IF sd.country = i /\ f >= 0 THEN Max(1, 5 - f) ELSE 0)
    IN  (IF Lookup(query) = i THEN 50 ELSE 0)
        + Sub[Len(Subdivisions)]
        + (IF fname >= 0 THEN Max(5, 30 - 2 * fname)
           ELSE IF fofficial >= 0 THEN Max(5, 30 - 2 * fofficial)
           ELSE 0)

\* pycountry.countries.search_fuzzy(n)[0]: the position of the record with
\* the most points, the first in alpha_2 order among equals; 0 for
\* LookupError (no record has a point)
SearchFuzzy(n) ==
    LET query == Lower(Strip(n))
        found == {i \in 1..Len(Countries) : FuzzyPoints(i, query) > 0}
    IN  IF found = {} THEN 0
        ELSE CHOOSE i \in found :
                 \A j \in found :
                     \/ FuzzyPoints(i, query) > FuzzyPoints(j, query)
                     \/ FuzzyPoints(i, query) = FuzzyPoints(j, query) /\ i <= j

\* canonicalize_country
CanonicalizeCountry(name) ==
    IF ~Truthy(name) THEN None
    ELSE LET n == Strip(name)
             keys == {k \in 1..Len(MANUAL_COUNTRY_MAP) : MANUAL_COUNTRY_MAP[k][1] = n}
         IN  IF n = <<>> THEN None
             ELSE IF keys # {} THEN MANUAL_COUNTRY_MAP[CHOOSE k \in keys : TRUE][2]
             ELSE IF Lookup(n) # 0 THEN Countries[Lookup(n)].name
             ELSE IF SearchFuzzy(n) # 0 THEN Countries[SearchFuzzy(n)].name
             ELSE Title(n)

\* the names drawn as inputs: the keys and the values of the alias table, a
\* code and a name of the country tables, an unknown name and the empty
\* text, each as written, in lower, upper and title case, and padded; and
\* None
CountryTexts ==
    LET names == { MANUAL_COUNTRY_MAP[i][1] : i \in 1..Len(MANUAL_COUNTRY_MAP) }
                 \cup { MANUAL_COUNTRY_MAP[i][2] : i \in 1..Len(MANUAL_COUNTRY_MAP) }
                 \cup { <<"K","R">>, <<"U","k","r","a","i","n","e">>,
                        <<"A","t","l","a","n","t","i","s">>, <<>> }
    IN  {None} \cup UNION { {x, Lower(x), [i \in 1..Len(x) |-> UpperChar(x[i])],
                              Title(x), <<SP>> \o x, x \o <<NBSP>>} : x \in names }

\* y = canonicalize_country(x)
CanonicalizeCountryOnce ==
    /\ cpc = "country"
    /\ cy' = CanonicalizeCountry(cx)
    /\ cpc' = "country1"
    /\ UNCHANGED <<cx, cz, svars, rvars, avars>>

\* z = canonicalize_country(y)
CanonicalizeCountryAgain ==
    /\ cpc = "country1"
    /\ cz' = CanonicalizeCountry(cy)
    /\ cpc' = "country2"
    /\ UNCHANGED <<cx, cy, svars, rvars, avars>>

GeoNext == CanonicalizeCountryOnce \/ CanonicalizeCountryAgain

-----------------------------------------------------------------------------
(* run_playwright_subprocess and the child it supervises                   *)

MaxTimeout == 2            \* the largest timeout drawn, in seconds
MaxClock   == 9            \* the model's horizon, in seconds
MaxLines   == 2            \* the most lines the child prints

WaitGrace == 5             \* proc.wait(timeout=5)

LINE    == "line"
KILLMSG == "Process killed due to timeout."
EXCMSG  == "Exception while running playwright scraper: ..."

Alive == {"running", "detached"}   \* detached: running, its stdout closed

RunnerIdle ==
    /\ rpc = "idle" /\ timeout = NoInt /\ clock = 0 /\ child = "none"
    /\ childCode = <<>> /\ childExit = NoInt /\ pipe = 0 /\ printed = 0
    /\ logs = <<>> /\ returncode = <<>> /\ killSent = FALSE /\ waitStart = 0
    /\ failure = "none" /\ result = <<>>

\* line 13: start = time.perf_counter() is the clock's origin
RunnerInit ==
    /\ rpc = "spawn" /\ timeout \in {NoInt} \cup (0..MaxTimeout)
    /\ clock = 0 /\ child = "none" /\ childCode = <<>> /\ childExit = NoInt
    /\ pipe = 0 /\ printed = 0 /\ logs = <<>> /\ returncode = <<>>
    /\ killSent = FALSE /\ waitStart = 0 /\ failure = "none" /\ result = <<>>

\* line 15
PopenOk ==
    /\ rpc = "spawn"
    /\ rpc' = "read" /\ child' = "running"
    /\ UNCHANGED <<timeout, clock, childCode, childExit, pipe, printed, logs,
                   returncode, killSent, waitStart, failure, result,
                   cvars, svars, avars>>

\* line 15 raises (OSError, or ValueError for a NUL in an argument): the call
\* is outside the try block
PopenFails ==
    /\ rpc = "spawn"
    /\ rpc' = "raised" /\ failure' = "spawn"
    /\ UNCHANGED <<timeout, clock, child, childCode, childExit, pipe, printed,
                   logs, returncode, killSent, waitStart, result,
                   cvars, svars, avars>>

Supervising == rpc \in {"read", "wait"}

\* the child writes one line to its stdout
ChildPrints ==
    /\ Supervising /\ child = "running" /\ printed < MaxLines
    /\ pipe' = pipe + 1 /\ printed' = printed + 1
    /\ UNCHANGED <<rpc, timeout, clock, child, childCode, childExit, logs,
                   returncode, killSent, waitStart, failure, result,
                   cvars, svars, avars>>

\* the child closes its stdout and keeps running
ChildClosesStdout ==
    /\ Supervising /\ child = "running"
    /\ child' = "detached"
    /\ UNCHANGED <<rpc, timeout, clock, childCode, childExit, pipe, printed,
                   logs, returncode, killSent, waitStart, failure, result,
                   cvars, svars, avars>>

\* the child exits by itself
ChildExits(code) ==
    /\ Supervising /\ child \in Alive
    /\ child' = "exited" /\ childCode' = <<code>> /\ childExit' = clock
    /\ UNCHANGED <<rpc, timeout, clock, pipe, printed, logs, returncode,
                   killSent, waitStart, failure, result, cvars, svars, avars>>

\* the runner is blocked: in the read of the next line, or in proc.wait
Blocked ==
    \/ rpc = "read" /\ pipe = 0 /\ child = "running"
    \/ rpc = "wait" /\ child = "detached" /\ clock < waitStart + WaitGrace

\* a second passes; the runner's own steps take no time
Tick ==
    /\ Blocked /\ clock < MaxClock
    /\ clock' = clock + 1
    /\ UNCHANGED <<rpc, timeout, child, childCode, childExit, pipe, printed,
                   logs, returncode, killSent, waitStart, failure, result,
                   cvars, svars, avars>>

\* line 22: timeout and (time.perf_counter() - start) > timeout
TimedOut == timeout # NoInt /\ timeout # 0 /\ clock > timeout

\* proc.kill(): Popen.send_signal polls first, so a child that has already
\* exited is reaped (returncode set) and gets no signal
KillChild ==
    /\ killSent' = TRUE
    /\ IF child \in Alive
       THEN child' = "killed" /\ childCode' = <<-9>> /\ returncode' = returncode
       ELSE child' = child /\ childCode' = childCode /\ returncode' = childCode

\* lines 20-22: a line is read and the deadline has not passed
ReadLine ==
    /\ rpc = "read" /\ pipe > 0 /\ ~TimedOut
    /\ pipe' = pipe - 1
    /\ logs' = Append(logs, LINE)
    /\ UNCHANGED <<rpc, timeout, clock, child, childCode, childExit, printed,
                   returncode, killSent, waitStart, failure, result,
                   cvars, svars, avars>>

\* lines 20-25: a line is read after the deadline: kill, log, break
ReadLineTimeout ==
    /\ rpc = "read" /\ pipe > 0 /\ TimedOut
    /\ pipe' = pipe - 1
    /\ KillChild
    /\ logs' = logs \o <<LINE, KILLMSG>>
    /\ rpc' = "wait" /\ waitStart' = clock
    /\ UNCHANGED <<timeout, clock, childExit, printed, failure, result,
                   cvars, svars, avars>>

\* lines 20-23: the same, when proc.kill() raises
ReadLineKillRaises ==
    /\ rpc = "read" /\ pipe > 0 /\ TimedOut
    /\ pipe' = pipe - 1
    /\ logs' = Append(logs, LINE)
    /\ rpc' = "except" /\ failure' = "kill"
    /\ UNCHANGED <<timeout, clock, child, childCode, childExit, printed,
                   returncode, killSent, waitStart, result, cvars, svars, avars>>

\* line 20: reading the stream raises (an undecodable line, an I/O error)
ReadRaises ==
    /\ rpc = "read" /\ pipe > 0
    /\ pipe' = pipe - 1
    /\ rpc' = "except" /\ failure' = "read"
    /\ UNCHANGED <<timeout, clock, child, childCode, childExit, printed, logs,
                   returncode, killSent, waitStart, result, cvars, svars, avars>>

\* line 20: end of the stream, the for loop ends
ReadEof ==
    /\ rpc = "read" /\ pipe = 0 /\ child \in {"detached", "exited", "killed"}
    /\ rpc' = "wait" /\ waitStart' = clock
    /\ UNCHANGED <<timeout, clock, child, childCode, childExit, pipe, printed,
                   logs, returncode, killSent, failure, result,
                   cvars, svars, avars>>

\* line 26: proc.wait returns the status of a child that has ended
WaitReaps ==
    /\ rpc = "wait" /\ child \in {"exited", "killed"}
    /\ returncode' = childCode
    /\ rpc' = "done"
    /\ UNCHANGED <<timeout, clock, child, childCode, childExit, pipe, printed,
                   logs, killSent, waitStart, failure, result,
                   cvars, svars, avars>>

\* line 26: proc.wait(timeout=5) raises TimeoutExpired
WaitExpires ==
    /\ rpc = "wait" /\ child = "detached" /\ clock >= waitStart + WaitGrace
    /\ rpc' = "except" /\ failure' = "wait"
    /\ UNCHANGED <<timeout, clock, child, childCode, childExit, pipe, printed,
                   logs, returncode, killSent, waitStart, result,
                   cvars, svars, avars>>

\* lines 27-32: the handler kills on a best-effort basis and logs the text
HandleException ==
    /\ rpc = "except"
    /\ KillChild
    /\ logs' = Append(logs, EXCMSG)
    /\ rpc' = "done"
    /\ UNCHANGED <<timeout, clock, childExit, pipe, printed, waitStart, failure,
                   result, cvars, svars, avars>>

\* lines 33-34
Return ==
    /\ rpc = "done"
    /\ result' = [status  |-> IF returncode = <<>> THEN -1 ELSE returncode[1],
                  elapsed |-> clock,
                  logs    |-> logs]
    /\ rpc' = "returned"
    /\ UNCHANGED <<timeout, clock, child, childCode, childExit, pipe, printed,
                   logs, returncode, killSent, waitStart, failure,
                   cvars, svars, avars>>

RunnerNext ==
    \/ PopenOk
    \/ PopenFails
    \/ ChildPrints
    \/ ChildClosesStdout
    \/ \E code \in {0, 1} : ChildExits(code)
    \/ Tick
    \/ ReadLine
    \/ ReadLineTimeout
    \/ ReadLineKillRaises
    \/ ReadRaises
    \/ ReadEof
    \/ WaitReaps
    \/ WaitExpires
    \/ HandleException
    \/ Return

-----------------------------------------------------------------------------
(* get_clinical_trials                                                     *)

MaxStudies == 2            \* the most items in the studies array

\* JSON values as json.loads returns them
JNull     == [t |-> "null"]
JStr(s)   == [t |-> "str", v |-> s]
JNum(n)   == [t |-> "num", v |-> n]
JList(l)  == [t |-> "list", v |-> l]
JObj(r)   == [t |-> "obj", v |-> r]
EmptyObj  == [t |-> "obj", v |-> <<>>]
Absent    == [t |-> "absent"]      \* a key the object does not have
Raised    == [t |-> "raise"]       \* AttributeError / TypeError

\* an object literal without the keys whose value is Absent
Object(r) == JObj([k \in {x \in DOMAIN r : r[x].t # "absent"} |-> r[k]])

\* o.get(key, default); anything but a dict has no .get
Get(o, key, default) ==
    IF o.t = "raise" THEN Raised
    ELSE IF o.t # "obj" THEN Raised
    ELSE IF key \in DOMAIN o.v THEN o.v[key] ELSE default

JTruthy(x) ==
    CASE x.t = "null" -> FALSE
      [] x.t = "str"  -> x.v # <<>>
      [] x.t = "num"  -> x.v # 0
      [] x.t = "list" -> Len(x.v) > 0
      [] x.t = "obj"  -> DOMAIN x.v # {}

\* a or b
JOr(a, b) == IF a.t = "raise" THEN Raised ELSE IF JTruthy(a) THEN a ELSE b

\* the decimal digits of a natural number
RECURSIVE DigitsOf(_)
DigitsOf(n) ==
    IF n < 10 THEN <<DIGITS[n + 1]>>
    ELSE Append(DigitsOf(n \div 10), DIGITS[(n % 10) + 1])

\* str(value) / repr(value) of a JSON scalar or list
RECURSIVE PyRepr(_, _)
PyRepr(x, quoted) ==
    CASE x.t = "null" -> <<"N","o","n","e">>
      [] x.t = "num"  -> DigitsOf(x.v)
      [] x.t = "str"  -> IF quoted THEN <<"'">> \o x.v \o <<"'">> ELSE x.v
      [] x.t = "list" ->
            LET F[i \in 0..Len(x.v)] ==
                    IF i = 0 THEN <<"[">>
                    ELSE F[i-1] \o (IF i > 1 THEN <<",", SP>> ELSE <<>>)
                                \o PyRepr(x.v[i], TRUE)
            IN  F[Len(x.v)] \o <<"]">>

\* api_client._extract_year
ApiExtractYear(value) ==
    IF value.t = "null" THEN NoInt
    ELSE LET first == IF value.t = "list" /\ Len(value.v) > 0 THEN value.v[1]
                      ELSE value
             txt   == PyRepr(first, FALSE)
             q     == {i \in 1..Len(txt) : FourDigitsAt(txt, i)}
         IN  IF q # {} THEN IntOf(SubSeq(txt, FirstOf(q), FirstOf(q) + 3))
             ELSE NoInt

\* lines 37-58: the record of one study item, or Raised
StudyRecord(s) ==
    LET ps      == Get(s, "protocolSection", EmptyObj)
        ident   == Get(ps, "identificationModule", EmptyObj)
        design  == Get(ps, "designModule", EmptyObj)
        nct_id  == JOr(Get(ident, "nctId", JNull), Get(ident, "id", JNull))
        title   == JOr(Get(ident, "briefTitle", JNull),
                       Get(ident, "officialTitle", JNull))
        locs    == JOr(Get(Get(ps, "contactsLocationsModule", EmptyObj),
                           "locations", JNull), JList(<<>>))
        country == IF locs.t = "raise" THEN Raised
                   ELSE IF JTruthy(locs) /\ locs.t = "list" /\ locs.v[1].t = "obj"
                        THEN Get(locs.v[1], "country", JNull)
                   ELSE JNull
        date    == Get(Get(Get(ps, "statusModule", EmptyObj),
                           "startDateStruct", EmptyObj), "date", JNull)
    IN  IF \E x \in {ident.t, design.t, nct_id.t, title.t, country.t, date.t} :
              x = "raise"
        THEN Raised
        ELSE [t |-> "record", nctId |-> nct_id, briefTitle |-> title,
              startYear |-> ApiExtractYear(date), country |-> country]

J_DATE14 == JStr(<<"2","0","1","4","-","0","3">>)
J_DATE15 == JStr(<<"M","a","y",SP,"2","0","1","5">>)

WellFormed ==
    [identificationModule |->
        Object([nctId |-> JStr(T_NCT1), id |-> Absent, briefTitle |-> JStr(T_A),
                officialTitle |-> Absent]),
     contactsLocationsModule |->
        Object([locations |-> JList(<<Object([country |-> JStr(<<"F","R">>)])>>)]),
     statusModule |->
        Object([startDateStruct |-> Object([date |-> J_DATE14])])]

Identifications ==
    << Absent, JNull, JStr(T_A), EmptyObj,
       Object([nctId |-> Absent, id |-> JStr(T_NCT2), briefTitle |-> JStr(<<>>),
               officialTitle |-> JStr(T_A)]) >>

Contacts ==
    << Absent, JNull, JList(<<>>), EmptyObj,
       Object([locations |-> JNull]),
       Object([locations |-> JList(<<>>)]),
       Object([locations |-> JStr(<<"F","R">>)]),
       Object([locations |-> JList(<<JStr(<<"F","R">>)>>)]),
       Object([locations |-> JList(<<JNull>>)]),
       Object([locations |-> JList(<<EmptyObj>>)]) >>

Statuses ==
    << Absent, JNull, JNum(2014), EmptyObj,
       Object([startDateStruct |-> JNull]),
       Object([startDateStruct |-> J_DATE14]),
       Object([startDateStruct |-> EmptyObj]),
       Object([startDateStruct |-> Object([date |-> JNull])]),
       Object([startDateStruct |-> Object([date |-> JNum(2016)])]),
       Object([startDateStruct |-> Object([date |-> JList(<<>>)])]),
       Object([startDateStruct |-> Object([date |-> JList(<<J_DATE15, J_DATE14>>)])]) >>

WithSection(ps) == Object([protocolSection |-> ps])

\* the study items the service can return: the well-formed one, and every
\* one that differs from it in one nested value
StudyShapes ==
    << WithSection(Object(WellFormed)) >>
    \o << JNull, JStr(T_A), EmptyObj, WithSection(JNull), WithSection(JStr(T_A)),
          WithSection(JList(<<>>)), WithSection(EmptyObj) >>
    \o [i \in 1..Len(Identifications) |->
          WithSection(Object([WellFormed EXCEPT !.identificationModule = Identifications[i]]))]
    \o [i \in 1..Len(Contacts) |->
          WithSection(Object([WellFormed EXCEPT !.contactsLocationsModule = Contacts[i]]))]
    \o [i \in 1..Len(Statuses) |->
          WithSection(Object([WellFormed EXCEPT !.statusModule = Statuses[i]]))]

ApiIdle == apc = "idle" /\ studies = <<>> /\ apos = 1 /\ arecords = <<>>

ApiInit == apc = "request" /\ studies = <<>> /\ apos = 1 /\ arecords = <<>>

\* lines 31-33 and 36: the response's studies array (each item given by its
\* place in StudyShapes)
Respond(items) ==
    /\ apc = "request"
    /\ studies' = items
    /\ apc' = "loop"
    /\ UNCHANGED <<apos, arecords, cvars, svars, rvars>>

\* line 32: raise_for_status on a non-2xx response
HttpError ==
    /\ apc = "request"
    /\ apc' = "http_error"
    /\ UNCHANGED <<studies, apos, arecords, cvars, svars, rvars>>

\* lines 36-58: one iteration of the loop over the studies
ProcessStudy ==
    /\ apc = "loop" /\ apos <= Len(studies)
    /\ LET r == StudyRecord(StudyShapes[studies[apos]])
       IN  IF r.t = "raise"
           THEN apc' = "raised" /\ UNCHANGED <<apos, arecords>>
           ELSE /\ arecords' = Append(arecords, r)
                /\ apos' = apos + 1
                /\ apc' = apc
    /\ UNCHANGED <<studies, cvars, svars, rvars>>

\* lines 60-63: the data frame is built and returned
ReturnFrame ==
    /\ apc = "loop" /\ apos > Len(studies)
    /\ apc' = "returned"
    /\ UNCHANGED <<studies, apos, arecords, cvars, svars, rvars>>

ApiNext ==
    \/ \E items \in UNION {[1..n -> 1..Len(StudyShapes)] : n \in 0..MaxStudies} :
          Respond(items)
    \/ HttpError
    \/ ProcessStudy
    \/ ReturnFrame

-----------------------------------------------------------------------------
(* The two _extract_year functions applied to the same drawn text          *)

MaxYearChunks == 3

YearTexts ==
    LET YearChunks ==
            { <<"2","0","1","4">>, <<"1","9","9","9">>, <<"3","0","0","0">>,
              <<"5">>, <<SP>>, <<"x">>, <<"-">> }
    IN  {None} \cup { Flatten(cs) : cs \in UNION {[1..n -> YearChunks] : n \in 0..MaxYearChunks} }

\* playwright_scraper._extract_year(text)
ScraperExtractsYear ==
    /\ cpc = "year"
    /\ cy' = ExtractYear(cx)
    /\ cpc' = "year1"
    /\ UNCHANGED <<cx, cz, svars, rvars, avars>>

\* api_client._extract_year(value), value the same Optional[str]
ApiExtractsYear ==
    /\ cpc = "year1"
    /\ cz' = ApiExtractYear(IF cx = None THEN JNull ELSE JStr(cx))
    /\ cpc' = "year2"
    /\ UNCHANGED <<cx, cy, svars, rvars, avars>>

YearNext == ScraperExtractsYear \/ ApiExtractsYear

-----------------------------------------------------------------------------
(* Specifications                                                          *)

Init == ScrapeInit /\ CanonIdle /\ RunnerIdle /\ ApiIdle

Next == ScrapeNext

Spec == Init /\ [][Next]_vars

\* scrape is one synchronous thread whose every call is bounded by a
\* timeout: as long as a step is possible, the process takes one
SpecLive == Init /\ [][Next]_vars /\ WF_vars(Next)

InitCanon == CanonInit /\ ScrapeIdle /\ RunnerIdle /\ ApiIdle

SpecCanon == InitCanon /\ [][CanonNext]_vars

InitRunner == RunnerInit /\ ScrapeIdle /\ CanonIdle /\ ApiIdle

SpecRunner == InitRunner /\ [][RunnerNext]_vars

InitApi == ApiInit /\ ScrapeIdle /\ CanonIdle /\ RunnerIdle

SpecApi == InitApi /\ [][ApiNext]_vars

InitGeo ==
    /\ cpc = "country" /\ cx \in CountryTexts /\ cy = None /\ cz = None
    /\ ScrapeIdle /\ RunnerIdle /\ ApiIdle

SpecGeo == InitGeo /\ [][GeoNext]_vars

InitYear ==
    /\ cpc = "year" /\ cx \in YearTexts /\ cy = None /\ cz = None
    /\ ScrapeIdle /\ RunnerIdle /\ ApiIdle

SpecYear == InitYear /\ [][YearNext]_vars

-----------------------------------------------------------------------------
(* Properties of scrape (specification Spec)                               *)

Finished == pc \in {"returned", "exit0"}

JsonEmpty == [t |-> "string", v |-> <<>>]

\* C1, as claimed: for every integer max_results, the artifact holds at most
\* max_results records and scrape returns at most max_results.
C1_CountAtMostMaxResults ==
    /\ file.exists => Len(file.lines) <= max_results
    /\ Finished => retval <= max_results

\* C1, amended: the artifact holds, and scrape returns, at most
\* max(max_results, 0) records; a negative max_results yields an empty artifact.
C1_CountAtMostMaxResultsOrZero ==
    /\ file.exists => Len(file.lines) <= Max(max_results, 0)
    /\ Finished => retval <= Max(max_results, 0)

\* C1 witness: a finished run that filled the artifact up to a positive
\* max_results.
C1_Witness ==
    /\ pc = "exit0" /\ max_results >= 1
    /\ Len(file.lines) = max_results /\ retval = max_results

\* C2: within one run the nctId values written to the artifact (and those of
\* the records collected for it) are pairwise distinct.
C2_DistinctIds ==
    /\ \A i, j \in 1..Len(file.lines) :
          i # j => file.lines[i].nctId # file.lines[j].nctId
    /\ \A i, j \in 1..Len(records) :
          i # j => records[i].nctId # records[j].nctId

\* C2 witness: a finished run with at least two records written, during
\* which a results page repeated an identifier already seen.
C2_Witness ==
    /\ pc = "exit0" /\ dupSkipped /\ Len(file.lines) >= 2

\* C5: a failure while opening one candidate's detail view affects only that
\* candidate's record: scrape does not raise at that candidate, it goes on to
\* the next one.
C5_DetailFailureIsLocal ==
    (detailFailure # 0 /\ pc \in {"raised", "exit1"}) => idx > detailFailure

\* C6: no record written has a briefTitle containing "unknown status" in any
\* letter case.
C6_NoUnknownStatusTitle ==
    \A i \in 1..Len(file.lines) :
        file.lines[i].briefTitle.t = "string"
            => ~Contains(Lower(file.lines[i].briefTitle.v), UNKNOWN)

\* C7: a reader of the output path sees no artifact of this run or the
\* complete sequence of records, never a proper prefix.
C7_ArtifactAtomic ==
    file.exists =>
        file.lines = [i \in 1..Len(Output) |-> JsonDumps(Output[i])]

\* C8: in every record written, an absent briefTitle or country is null,
\* never the empty string.
C8_AbsentIsNull ==
    \A i \in 1..Len(file.lines) :
        /\ file.lines[i].briefTitle # JsonEmpty
        /\ file.lines[i].country # JsonEmpty

\* the artifact holds exactly the records of this run, each on its line,
\* and nothing is left in the file object's buffer
ArtifactComplete ==
    /\ file.exists /\ fhbuf = <<>>
    /\ file.lines = [i \in 1..Len(Output) |-> JsonDumps(Output[i])]

\* C14: the pipeline process exits with status 0 only after the artifact
\* has been completely written; once scrape has raised, the process prints
\* a FATAL line and exits with a non-zero status (or is killed first), so
\* status 0 never goes with an incomplete artifact.
C14_ExitZeroOnlyAfterArtifact ==
    [][ /\ pc' = "exit0" => (pc \in {"returned", "exit0"} /\ ArtifactComplete')
        /\ pc = "raised" =>
              /\ pc' \in {"raised", "exit1", "killed"}
              /\ pc' = "exit1" => stdout' = Append(stdout, <<"FATAL">>) ]_vars

\* C14 witness: the process has exited with status 0 after writing two
\* records, the count line being the last line it printed.
C14_Witness ==
    /\ pc = "exit0" /\ Len(Output) = 2 /\ ArtifactComplete
    /\ stdout[Len(stdout)] = <<"SCRAPED_ITEMS", 2>>

\* C15: the pagination loop terminates whatever the source does: the run
\* eventually leaves the loop (target reached, next-page control absent or
\* disabled, click failed, or no page brings a new identifier while the
\* control stays enabled), and the candidates collected are never dropped.
C15_PaginationTerminates ==
    /\ <>(pc \notin {"launch", "scan", "next"})
    /\ [][Len(pairs) <= Len(pairs') /\ SubSeq(pairs', 1, Len(pairs)) = pairs]_vars

\* the title the claim resolves for candidate i: the detail-view title when
\* one was found, otherwise the results-list title
ResolvedTitle(i) == Or(detailTitles[i], Candidates[i].briefTitle)

\* candidate i falls under the status rule
StatusExcluded(i) ==
    Truthy(ResolvedTitle(i)) /\ Contains(Lower(ResolvedTitle(i)), UNKNOWN)

\* C16: in a finished run every collected candidate (up to the maximum) that
\* the status rule does not exclude has exactly one output record, the
\* records follow the order of the candidates, a record's title is the
\* detail-view title when one was found and the results-list title
\* otherwise, and a candidate without a title or without a detail link is
\* emitted too, a diagnostic being printed when the title is absent.
C16_EveryCandidateYieldsOneRecord ==
    Finished =>
        \E K \in SUBSET (1..Len(Candidates)) :
            /\ \A i \in 1..Len(Candidates) : ~StatusExcluded(i) => i \in K
            /\ Len(Output) = Cardinality(K)
            /\ \A j \in 1..Len(Output) :
                  LET i == CHOOSE k \in K : Cardinality({h \in K : h < k}) = j - 1
                  IN  /\ Output[j].nctId = Candidates[i].nctId
                      /\ Output[j].briefTitle = ResolvedTitle(i)
            /\ \A i \in K :
                  ~Truthy(ResolvedTitle(i)) =>
                      \E n \in 1..Len(stdout) : stdout[n] = Warn(Candidates[i])

-----------------------------------------------------------------------------
(* Properties of the canonicalizer (specification SpecCanon)               *)

\* C10: identifier canonicalization is idempotent: canonicalizing the result
\* of _canonical_nct again returns it unchanged, for every text and for None.
C10_CanonicalNctIdempotent == cpc = "twice" => cz = cy

\* C10 witness: a text that the first application rewrote to NCT<digits>
\* has been canonicalized twice.
C10_Witness ==
    /\ cpc = "twice" /\ cy # None /\ cy # cx /\ Len(cy) >= 3 + MinNctDigits
    /\ SubSeq(cy, 1, 3) = <<"N", "C", "T">>

\* the occurrences in s of "NCT" in any letter case, optional white space
\* and a whole run of at least n digits, as <<first digit, last digit>>;
\* when delimited, only those with no word character right before the N or
\* right after the last digit
NctOccurrences(s, n, delimited) ==
    { m \in (1..Len(s)) \X (1..Len(s)) :
        /\ m[1] + n - 1 <= m[2]
        /\ \A j \in m[1]..m[2] : IsDigit(s[j])
        /\ m[1] > 1 => ~IsDigit(s[m[1]-1])
        /\ m[2] < Len(s) => ~IsDigit(s[m[2]+1])
        /\ \E i \in 1..(m[1] - 3) :
              /\ s[i] \in {"N", "n"} /\ s[i+1] \in {"C", "c"} /\ s[i+2] \in {"T", "t"}
              /\ \A j \in (i + 3)..(m[1] - 1) : IsSpace(s[j])
              /\ delimited => /\ i > 1 => ~IsWord(s[i-1])
                              /\ m[2] < Len(s) => ~IsWord(s[m[2]+1]) }

\* C11 (as stated): whenever "NCT" (any letter case) followed by one or more
\* digits occurs in the text, _canonical_nct returns "NCT" followed by those
\* digits; the cleaned text is returned only when there is no such
\* occurrence, and absent only when the cleaned text is empty.
C11_NctThenDigits ==
    cpc = "once" =>
        LET s   == CleanText(cx)
            occ == IF cx = None THEN {} ELSE NctOccurrences(s, 1, FALSE)
        IN  /\ occ # {} =>
                \E m \in occ : cy = <<"N", "C", "T">> \o SubSeq(s, m[1], m[2])
            /\ (cy = s /\ cy # None) => occ = {}
            /\ cy = None => (cx = None \/ s = <<>>)

\* C11 (amended): whenever the cleaned text holds "NCT" (any letter case)
\* that starts a word, optional white space, and a run of four or more
\* digits that ends a word, _canonical_nct returns "NCT" followed by the
\* digits of the first such occurrence; it returns the cleaned text exactly
\* when there is no such occurrence and the cleaned text is not empty, and
\* absent exactly when the input is absent or the cleaned text is empty.
C11_DelimitedNctThenFourDigits ==
    cpc = "once" =>
        LET s   == CleanText(cx)
            occ == IF cx = None THEN {} ELSE NctOccurrences(s, MinNctDigits, TRUE)
        IN  IF cx = None \/ s = <<>> THEN cy = None
            ELSE IF occ = {} THEN cy = s
            ELSE LET m == CHOOSE f \in occ : \A g \in occ : f[1] <= g[1]
                 IN  cy = <<"N", "C", "T">> \o SubSeq(s, m[1], m[2])

\* C11 witness: a longer text with a delimited occurrence written in lower
\* case has been canonicalized to NCT<digits>.
C11_Witness ==
    /\ cpc = "once" /\ cx # None
    /\ NctOccurrences(CleanText(cx), MinNctDigits, TRUE) # {}
    /\ cx[1] = "n" /\ Len(cx) > 3 + MinNctDigits
    /\ cy = <<"N", "C", "T", "0", "1", "2", "3">>

-----------------------------------------------------------------------------
(* Properties of canonicalize_country (specification SpecGeo)              *)

\* C12: country canonicalization is total and idempotent: for every input
\* canonicalize_country returns a text or absent, and applying it to its own
\* result returns that result unchanged, also for results of the alias
\* table and of the title-case fallback.
C12_CountryIdempotent == cpc = "country2" => cz = cy

-----------------------------------------------------------------------------
(* Properties of the two _extract_year functions (specification SpecYear)  *)

\* C13: the API client's and the browser pipeline's year extraction apply
\* the same rule: on every text both return the same result, the first run
\* of four digits of the text as an integer, or absent when the text has no
\* run of four digits.
C13_SameYearRule ==
    cpc = "year2" =>
        LET runs == IF cx = None THEN {}
                    ELSE {i \in 1..(Len(cx) - 3) : \A j \in i..(i + 3) : IsDigit(cx[j])}
            first == IF runs = {} THEN NoInt
                     ELSE LET i == CHOOSE r \in runs : \A q \in runs : r <= q
                          IN  IntOf(SubSeq(cx, i, i + 3))
        IN  cy = cz /\ cy = first

-----------------------------------------------------------------------------
(* Properties of run_playwright_subprocess (specification SpecRunner)      *)

\* the deadline passed while the child was still running
DeadlinePassedFirst ==
    /\ timeout # NoInt /\ timeout > 0
    /\ IF childExit = NoInt THEN clock > timeout ELSE childExit > timeout

\* C3: if a timeout is supplied and elapses before the child exits, then
\* (no call of the runner itself failing) the runner kills the child, logs
\* "Process killed due to timeout." and returns a non-zero status with an
\* elapsed time close to the timeout.
C3_TimeoutKillsChild ==
    (rpc = "returned" /\ failure = "none" /\ DeadlinePassedFirst) =>
        /\ killSent
        /\ \E i \in 1..Len(result.logs) : result.logs[i] = KILLMSG
        /\ result.status # 0
        /\ result.elapsed <= timeout + WaitGrace

\* C17: whenever the returned log holds "Process killed due to timeout." the
\* returned status is not 0, whatever the order of the child's output, its
\* exit and the timeout check (a child that prints its last line after the
\* deadline and exits with status 0 before the kill included).
C17_KillLineMeansFailure ==
    rpc = "returned" =>
        ((\E i \in 1..Len(result.logs) : result.logs[i] = KILLMSG)
            => result.status # 0)

\* C4: run_playwright_subprocess never raises into its caller; after a
\* failure it returns with the child sent a kill and the exception text in
\* the log.
C4_NeverRaises ==
    /\ rpc # "raised"
    /\ (rpc = "returned" /\ failure # "none") =>
          /\ killSent
          /\ \E i \in 1..Len(result.logs) : result.logs[i] = EXCMSG

-----------------------------------------------------------------------------
(* Properties of get_clinical_trials (specification SpecApi)               *)

LacksContacts(s) ==
    /\ s.t = "obj" /\ "protocolSection" \in DOMAIN s.v
    /\ s.v.protocolSection.t = "obj"
    /\ "contactsLocationsModule" \notin DOMAIN s.v.protocolSection.v

\* C9: get_clinical_trials never raises because of the shape of a study
\* item, and an item lacking contactsLocationsModule yields a record with
\* country absent.
C9_NeverRaisesOnShape ==
    /\ apc # "raised"
    /\ \A i \in 1..Len(arecords) :
          LacksContacts(StudyShapes[studies[i]]) => arecords[i].country = JNull

=============================================================================
